---- MODULE Spec2Model ----
(***************************************************************************)
(* Model of the hand-written mDNS codec of the service_discovery           *)
(* repository (src/testing1.js, duplicated in src/nativeMdnsDiscovery.js): *)
(* buildQuery, readName, parseRecord and parseDNSMessage.                  *)
(*                                                                         *)
(* A Buffer is a sequence of bytes (0..255); the JavaScript offset o is    *)
(* the element o + 1 of the sequence.  A JavaScript string is a sequence   *)
(* of UTF-16 code units.  A call that can throw returns a record whose     *)
(* field status is "ok" or the name of the error thrown.                   *)
(***************************************************************************)
EXTENDS Integers, Sequences, FiniteSets, TLC

VARIABLES
    op,                 \* the operation that ran last
    fullServiceQuery,   \* testing1.js:9, the name buildQuery encodes
    query,              \* the buffer buildQuery returned
    sent,               \* the datagram as it was sent, and what is known of it
    msg,                \* the buffer handed to the decoder
    at,                 \* the offset handed to readName / parseRecord
    out,                \* what the last operation returned or threw
    services,           \* testing1.js:167, the service table of testing1.js
    shown,              \* the instances the last handler run of testing1.js printed
    steps,              \* its table before the last datagram and after each record of it
    prototype,          \* the properties nativeMdnsDiscovery.js added to Object.prototype
    nativeSteps,        \* nativeMdnsDiscovery.js:165, its table before and after each record
    stream,             \* the datagrams sent to the multicast group so far
    pending,            \* the listeners that have not taken the last datagram yet
    hung                \* the listeners whose handler never returned

listenerVars == <<services, shown, steps, prototype, nativeSteps, stream, pending, hung>>

vars == <<op, fullServiceQuery, query, sent, msg, at, out, services, shown, steps,
          prototype, nativeSteps, stream, pending, hung>>

(***************************************************************************)
(* Bounds of the model.                                                    *)
(***************************************************************************)
MaxNameLen == 4     \* code units in an enumerated service name
MaxRawLen == 5      \* bytes in an enumerated raw name buffer
MaxQuestions == 1   \* questions in an enumerated datagram
MaxRecords == 2     \* records in an enumerated datagram
MaxTxtStrings == 2  \* sub-strings in a well-formed TXT record
MaxTxtLen == 3      \* bytes of rdata in a TXT record enumerated byte by byte
MaxMessages == 2    \* datagrams sent to the two listeners

(***************************************************************************)
(* Sequences and characters.                                               *)
(***************************************************************************)
Dot == 46           \* '.'
Equals == 61        \* '='
Replacement == 65533 \* U+FFFD, what the UTF-8 decoder emits for bad input

Min(a, b) == IF a < b THEN a ELSE b

RECURSIVE Flatten(_)
Flatten(ss) == IF ss = <<>> THEN <<>> ELSE Head(ss) \o Flatten(Tail(ss))

\* All sequences over S of length 0..n.
RECURSIVE SeqsUpTo(_, _)
SeqsUpTo(S, n) ==
    IF n = 0 THEN {<<>>}
    ELSE LET shorter == SeqsUpTo(S, n - 1)
         IN  shorter \cup {Append(s, x) : s \in {t \in shorter : Len(t) = n - 1}, x \in S}

(***************************************************************************)
(* Node's Buffer.                                                          *)
(***************************************************************************)
\* buffer.readUInt8/16BE/32BE(offset) throw a RangeError unless the bytes
\* offset .. offset + width - 1 all lie inside the buffer.
CanRead(buffer, offset, width) == offset >= 0 /\ offset + width <= Len(buffer)

readUInt8(buffer, offset) == buffer[offset + 1]
readUInt16BE(buffer, offset) == buffer[offset + 1] * 256 + buffer[offset + 2]
\* The 32-bit value is kept as its two 16-bit halves, high * 65536 + low:
\* a value of 2^31 or more does not fit the integers of the model checker.
readUInt32BE(buffer, offset) ==
    [high |-> readUInt16BE(buffer, offset), low |-> readUInt16BE(buffer, offset + 2)]

\* header.writeUInt16BE(value, 0) on a fresh 2-byte span.
writeUInt16BE(value) == <<(value \div 256) % 256, value % 256>>

\* buffer.slice(start, end): both ends are clamped to the buffer, never throws.
slice(buffer, start, end) ==
    LET s == Min(start, Len(buffer))
        e == Min(end, Len(buffer))
    IN  IF e <= s THEN <<>> ELSE SubSeq(buffer, s + 1, e)

\* Buffer.from(string): the UTF-8 encoding of a string of UTF-16 code units.
\* A surrogate pair becomes one 4-byte sequence, a lone surrogate U+FFFD.
IsHighSurrogate(u) == u >= 55296 /\ u <= 56319
IsLowSurrogate(u) == u >= 56320 /\ u <= 57343

RECURSIVE Utf8Encode(_)
Utf8Encode(str) ==
    IF str = <<>> THEN <<>>
    ELSE LET u == Head(str) IN
         IF u < 128 THEN <<u>> \o Utf8Encode(Tail(str))
         ELSE IF u < 2048
              THEN <<192 + (u \div 64), 128 + (u % 64)>> \o Utf8Encode(Tail(str))
         ELSE IF IsHighSurrogate(u) /\ Len(str) >= 2 /\ IsLowSurrogate(str[2])
              THEN LET cp == 65536 + (u - 55296) * 1024 + (str[2] - 56320)
                   IN  <<240 + (cp \div 262144), 128 + ((cp \div 4096) % 64),
                         128 + ((cp \div 64) % 64), 128 + (cp % 64)>>
                       \o Utf8Encode(Tail(Tail(str)))
         ELSE IF IsHighSurrogate(u) \/ IsLowSurrogate(u)
              THEN <<239, 191, 189>> \o Utf8Encode(Tail(str))
         ELSE <<224 + (u \div 4096), 128 + ((u \div 64) % 64), 128 + (u % 64)>>
              \o Utf8Encode(Tail(str))

\* The code units of one decoded code point.
CodeUnits(cp) ==
    IF cp < 65536 THEN <<cp>>
    ELSE <<55296 + ((cp - 65536) \div 1024), 56320 + ((cp - 65536) % 1024)>>

\* The UTF-8 decoder behind buffer.toString('utf8'): need is the number of
\* continuation bytes still expected, cp the code point so far, and lo..hi
\* the range the next continuation byte must lie in.  A byte that cannot
\* continue the sequence ends it with one U+FFFD and is decoded again as
\* the start of a new sequence; so does the end of the input.
RECURSIVE Utf8Dec(_, _, _, _, _, _)
Utf8Dec(bytes, i, need, cp, lo, hi) ==
    IF i > Len(bytes) THEN (IF need > 0 THEN <<Replacement>> ELSE <<>>)
    ELSE LET b == bytes[i] IN
         IF need = 0
         THEN IF b < 128 THEN <<b>> \o Utf8Dec(bytes, i + 1, 0, 0, 128, 191)
              ELSE IF b >= 194 /\ b <= 223
                   THEN Utf8Dec(bytes, i + 1, 1, b % 32, 128, 191)
              ELSE IF b >= 224 /\ b <= 239
                   THEN Utf8Dec(bytes, i + 1, 2, b % 16,
                                IF b = 224 THEN 160 ELSE 128,
                                IF b = 237 THEN 159 ELSE 191)
              ELSE IF b >= 240 /\ b <= 244
                   THEN Utf8Dec(bytes, i + 1, 3, b % 8,
                                IF b = 240 THEN 144 ELSE 128,
                                IF b = 244 THEN 143 ELSE 191)
              ELSE <<Replacement>> \o Utf8Dec(bytes, i + 1, 0, 0, 128, 191)
         ELSE IF b < lo \/ b > hi
              THEN <<Replacement>> \o Utf8Dec(bytes, i, 0, 0, 128, 191)
         ELSE IF need = 1
              THEN CodeUnits((cp * 64) + (b % 64)) \o Utf8Dec(bytes, i + 1, 0, 0, 128, 191)
         ELSE Utf8Dec(bytes, i + 1, need - 1, (cp * 64) + (b % 64), 128, 191)

\* buffer.toString('utf8', start, end): the span is clamped like slice.
toString(buffer, start, end) == Utf8Dec(slice(buffer, start, end), 1, 0, 0, 128, 191)

(***************************************************************************)
(* JavaScript strings.                                                     *)
(***************************************************************************)
\* str.split('.'): the pieces between the dots, empty pieces included.
RECURSIVE SplitFrom(_, _, _)
SplitFrom(str, i, piece) ==
    IF i > Len(str) THEN <<piece>>
    ELSE IF str[i] = Dot THEN <<piece>> \o SplitFrom(str, i + 1, <<>>)
    ELSE SplitFrom(str, i + 1, Append(piece, str[i]))

split(str) == SplitFrom(str, 1, <<>>)

\* labels.join('.')
RECURSIVE join(_)
join(labels) ==
    IF labels = <<>> THEN <<>>
    ELSE IF Len(labels) = 1 THEN labels[1]
    ELSE labels[1] \o <<Dot>> \o join(Tail(labels))

\* txt.indexOf('='): the 0-based index of the first '=', or -1.
RECURSIVE IndexFrom(_, _, _)
IndexFrom(str, c, i) ==
    IF i > Len(str) THEN -1
    ELSE IF str[i] = c THEN i - 1
    ELSE IndexFrom(str, c, i + 1)

indexOf(str, c) == IndexFrom(str, c, 1)

\* The string constants of the program, as code units.
SmartIp == <<95, 115, 109, 97, 114, 116, 95, 105, 112>>     \* "_smart_ip"
Tcp == <<95, 116, 99, 112>>                                 \* "_tcp"
Local == <<108, 111, 99, 97, 108>>                          \* "local"
serviceQuery == SmartIp \o <<Dot>> \o Tcp                   \* testing1.js:7
DefaultServiceQuery == serviceQuery \o <<Dot>> \o Local     \* testing1.js:9
NativeServiceQuery == DefaultServiceQuery \o <<Dot>>        \* nativeMdnsDiscovery.js:5

(***************************************************************************)
(* buildQuery (testing1.js:15-44), with the encoded name as a parameter.   *)
(***************************************************************************)
\* Lines 16-22: the 12-byte header.
QueryHeader ==
    writeUInt16BE(0) \o writeUInt16BE(0) \o writeUInt16BE(1)
        \o writeUInt16BE(0) \o writeUInt16BE(0) \o writeUInt16BE(0)

\* The loop body without line 28, if (!part) continue: an empty part is
\* written as a label of length 0.
EncodePartKeepEmpty(part) == <<Len(part)>> \o Utf8Encode(part)

\* Lines 27-33: one part of the name.  An empty part is skipped; the length
\* byte is part.length, the number of code units, and the bytes that follow
\* are Buffer.from(part), the UTF-8 encoding.
EncodePart(part) ==
    IF part = <<>> THEN <<>> ELSE <<Len(part)>> \o Utf8Encode(part)

\* len.writeUInt8(part.length, 0) throws a RangeError above 255.
PartFits(part) == Len(part) <= 255

\* QTYPE and QCLASS written in the wrong order.
QuestionTailSwapped == writeUInt16BE(1) \o writeUInt16BE(12)

\* Lines 39-41: QTYPE = 12 (PTR), QCLASS = 1 (IN).
QuestionTail == writeUInt16BE(12) \o writeUInt16BE(1)

buildQuery(name) ==
    LET qnameParts == split(name)
        qnameBuffer ==
            Flatten([i \in 1..Len(qnameParts) |-> EncodePart(qnameParts[i])]) \o <<0>>
    IN  IF \E i \in 1..Len(qnameParts) : ~PartFits(qnameParts[i])
        THEN [status |-> "RangeError"]
        ELSE [status |-> "ok", buffer |-> QueryHeader \o qnameBuffer \o QuestionTail]

(***************************************************************************)
(* readName (testing1.js:47-74).                                           *)
(***************************************************************************)
\* Lines 48-50: the locals on entry.
RnEntry(offset) ==
    [pc |-> "loop", offset |-> offset, labels |-> <<>>, jumped |-> FALSE,
     originalOffset |-> offset]

\* (length & 0xC0) === 0xC0, for a byte.
IsPointer(length) == (length \div 64) % 4 = 3

\* The pointer target without the mask that clears the two flag bits.
PointerTargetUnmasked(length, next) == length * 256 + next

\* ((length & 0x3F) << 8) | next
PointerTarget(length, next) == (length % 64) * 256 + next

\* The loop with line 62 left out: the end of the name is never recorded.
RnStepNoRecord(buffer, s) ==
    IF ~CanRead(buffer, s.offset, 1) THEN [s EXCEPT !.pc = "RangeError"]
    ELSE LET length == readUInt8(buffer, s.offset) IN
         IF length = 0 THEN [s EXCEPT !.offset = @ + 1, !.pc = "return"]
         ELSE IF IsPointer(length)
              THEN IF ~CanRead(buffer, s.offset + 1, 1)
                   THEN [s EXCEPT !.pc = "RangeError"]
                   ELSE [s EXCEPT
                            !.offset = PointerTarget(length, readUInt8(buffer, s.offset + 1)),
                            !.jumped = TRUE]
         ELSE [s EXCEPT
                  !.labels = Append(@, toString(buffer, s.offset + 1, s.offset + 1 + length)),
                  !.offset = s.offset + 1 + length]

\* The loop without the test of line 61: every pointer records its end.
RnStepEveryPointer(buffer, s) ==
    IF ~CanRead(buffer, s.offset, 1) THEN [s EXCEPT !.pc = "RangeError"]
    ELSE LET length == readUInt8(buffer, s.offset) IN
         IF length = 0 THEN [s EXCEPT !.offset = @ + 1, !.pc = "return"]
         ELSE IF IsPointer(length)
              THEN IF ~CanRead(buffer, s.offset + 1, 1)
                   THEN [s EXCEPT !.pc = "RangeError"]
                   ELSE [s EXCEPT
                            !.originalOffset = s.offset + 2,
                            !.offset = PointerTarget(length, readUInt8(buffer, s.offset + 1)),
                            !.jumped = TRUE]
         ELSE [s EXCEPT
                  !.labels = Append(@, toString(buffer, s.offset + 1, s.offset + 1 + length)),
                  !.offset = s.offset + 1 + length]

\* Lines 53-71: one iteration of the while (true) loop.  pc becomes
\* "return" at the break of line 56 and "RangeError" when a read throws.
RnStep(buffer, s) ==
    IF ~CanRead(buffer, s.offset, 1) THEN [s EXCEPT !.pc = "RangeError"]
    ELSE LET length == readUInt8(buffer, s.offset) IN
         IF length = 0 THEN [s EXCEPT !.offset = @ + 1, !.pc = "return"]
         ELSE IF IsPointer(length)
              THEN IF ~CanRead(buffer, s.offset + 1, 1)
                   THEN [s EXCEPT !.pc = "RangeError"]
                   ELSE [s EXCEPT
                            !.originalOffset = IF s.jumped THEN @ ELSE s.offset + 2,
                            !.offset = PointerTarget(length, readUInt8(buffer, s.offset + 1)),
                            !.jumped = TRUE]
         ELSE [s EXCEPT
                  !.labels = Append(@, toString(buffer, s.offset + 1, s.offset + 1 + length)),
                  !.offset = s.offset + 1 + length]

\* Line 73: the value returned once the loop is left.
RnResult(s) ==
    IF s.pc = "return"
    THEN [status |-> "ok", name |-> join(s.labels),
          readBytes |-> IF s.jumped THEN s.originalOffset ELSE s.offset]
    ELSE [status |-> s.pc]

\* The loop run to its end.  Before the first pointer the offset only
\* grows; after it, the rest of the run is a function of the offset alone,
\* so a run that comes back to an offset it has been at since it jumped
\* repeats forever: the call never returns (status "diverges").
RECURSIVE RnLoop(_, _, _)
RnLoop(buffer, s, seen) ==
    IF s.pc # "loop" THEN RnResult(s)
    ELSE IF s.jumped /\ s.offset \in seen THEN [status |-> "diverges"]
    ELSE RnLoop(buffer, RnStep(buffer, s), IF s.jumped THEN seen \cup {s.offset} ELSE seen)

readName(buffer, offset) == RnLoop(buffer, RnEntry(offset), {})

(***************************************************************************)
(* parseRecord (testing1.js:77-130).                                       *)
(***************************************************************************)
\* String(n) for a byte: its decimal digits as code units.
RECURSIVE Decimal(_)
Decimal(n) == IF n < 10 THEN <<48 + n>> ELSE Decimal(n \div 10) \o <<48 + (n % 10)>>

\* Lines 120-124: ipBytes.join('.') over the rdlength bytes at offset.
IpString(buffer, offset, rdlength) ==
    join([i \in 1..rdlength |-> Decimal(readUInt8(buffer, offset + i - 1))])

\* "__proto__": assigning a string or true to this key of an object literal
\* sets no property.
ProtoKey == <<95, 95, 112, 114, 111, 116, 111, 95, 95>>

\* obj[key] = value on a plain object: a mapping from keys to values.
SetProperty(obj, key, value) ==
    IF key = ProtoKey THEN obj
    ELSE [k \in (DOMAIN obj) \cup {key} |-> IF k = key THEN value ELSE obj[k]]

EmptyObject == <<>>

\* The values of a TXT mapping: a string, or the boolean true.
StringValue(str) == [string |-> str]
TrueValue == [boolean |-> TRUE]

\* The entry with the value taken from the '=' on, not from after it.
TxtEntryKeepEquals(txts, txt) ==
    LET equalIndex == indexOf(txt, Equals) IN
    IF equalIndex # -1
    THEN SetProperty(txts, SubSeq(txt, 1, equalIndex),
                     StringValue(SubSeq(txt, equalIndex + 1, Len(txt))))
    ELSE SetProperty(txts, txt, TrueValue)

\* Lines 108-115: one sub-string entered into the mapping.
TxtEntry(txts, txt) ==
    LET equalIndex == indexOf(txt, Equals) IN
    IF equalIndex # -1
    THEN SetProperty(txts, SubSeq(txt, 1, equalIndex),
                     StringValue(SubSeq(txt, equalIndex + 2, Len(txt))))
    ELSE SetProperty(txts, txt, TrueValue)

\* Lines 103-116: the while (offset < end) loop of the TXT branch.
RECURSIVE TxtLoop(_, _, _, _)
TxtLoop(buffer, offset, end, txts) ==
    IF ~(offset < end) THEN [status |-> "ok", rdata |-> txts, offset |-> offset]
    ELSE IF ~CanRead(buffer, offset, 1) THEN [status |-> "RangeError"]
    ELSE LET txtLen == readUInt8(buffer, offset)
             txt == toString(buffer, offset + 1, offset + 1 + txtLen)
         IN  TxtLoop(buffer, offset + 1 + txtLen, end, TxtEntry(txts, txt))

\* RecordData with the PTR and SRV branches ending where the decoded name
\* ends, and the other branches as they are.
RecordDataNameEnd(buffer, type, offset, rdlength) ==
    IF type = 12
    THEN LET r == readName(buffer, offset) IN
         IF r.status # "ok" THEN [status |-> r.status]
         ELSE [status |-> "ok", rdata |-> r.name, offset |-> r.readBytes]
    ELSE IF type = 33
    THEN IF ~CanRead(buffer, offset, 6) THEN [status |-> "RangeError"]
         ELSE LET r == readName(buffer, offset + 6) IN
              IF r.status # "ok" THEN [status |-> r.status]
              ELSE [status |-> "ok",
                    rdata |-> [priority |-> readUInt16BE(buffer, offset),
                               weight |-> readUInt16BE(buffer, offset + 2),
                               port |-> readUInt16BE(buffer, offset + 4),
                               target |-> r.name],
                    offset |-> r.readBytes]
    ELSE IF type = 16
    THEN TxtLoop(buffer, offset, offset + rdlength, EmptyObject)
    ELSE IF type = 1
    THEN IF ~CanRead(buffer, offset, rdlength) THEN [status |-> "RangeError"]
         ELSE [status |-> "ok", rdata |-> IpString(buffer, offset, rdlength),
               offset |-> offset + rdlength]
    ELSE [status |-> "ok", rdata |-> slice(buffer, offset, offset + rdlength),
          offset |-> offset + rdlength]

\* Lines 92-128: the rdata by record type, and the offset of the next record.
\* Every branch but TXT ends at line 128, offset += rdlength.
RecordData(buffer, type, offset, rdlength) ==
    IF type = 12
    THEN LET r == readName(buffer, offset) IN
         IF r.status # "ok" THEN [status |-> r.status]
         ELSE [status |-> "ok", rdata |-> r.name, offset |-> offset + rdlength]
    ELSE IF type = 33
    THEN IF ~CanRead(buffer, offset, 6) THEN [status |-> "RangeError"]
         ELSE LET r == readName(buffer, offset + 6) IN
              IF r.status # "ok" THEN [status |-> r.status]
              ELSE [status |-> "ok",
                    rdata |-> [priority |-> readUInt16BE(buffer, offset),
                               weight |-> readUInt16BE(buffer, offset + 2),
                               port |-> readUInt16BE(buffer, offset + 4),
                               target |-> r.name],
                    offset |-> offset + rdlength]
    ELSE IF type = 16
    THEN TxtLoop(buffer, offset, offset + rdlength, EmptyObject)
    ELSE IF type = 1
    THEN IF ~CanRead(buffer, offset, rdlength) THEN [status |-> "RangeError"]
         ELSE [status |-> "ok", rdata |-> IpString(buffer, offset, rdlength),
               offset |-> offset + rdlength]
    ELSE [status |-> "ok", rdata |-> slice(buffer, offset, offset + rdlength),
          offset |-> offset + rdlength]

parseRecord(buffer, offset) ==
    LET nameResult == readName(buffer, offset) IN
    IF nameResult.status # "ok" THEN [status |-> nameResult.status]
    ELSE LET fields == nameResult.readBytes IN
         IF ~CanRead(buffer, fields, 10) THEN [status |-> "RangeError"]
         ELSE LET type == readUInt16BE(buffer, fields)
                  cls == readUInt16BE(buffer, fields + 2)
                  ttl == readUInt32BE(buffer, fields + 4)
                  rdlength == readUInt16BE(buffer, fields + 8)
                  data == RecordData(buffer, type, fields + 10, rdlength)
              IN  IF data.status # "ok" THEN [status |-> data.status]
                  ELSE [status |-> "ok", name |-> nameResult.name, type |-> type,
                        cls |-> cls, ttl |-> ttl, rdlength |-> rdlength,
                        rdata |-> data.rdata, offset |-> data.offset]

(***************************************************************************)
(* parseDNSMessage (testing1.js:133-158).                                  *)
(***************************************************************************)
\* Lines 145-148: the questions are skipped; the 4 bytes after each name
\* are stepped over without being read.
RECURSIVE SkipQuestions(_, _, _)
SkipQuestions(buffer, offset, count) ==
    IF count = 0 THEN [status |-> "ok", offset |-> offset]
    ELSE LET res == readName(buffer, offset) IN
         IF res.status # "ok" THEN [status |-> res.status]
         ELSE SkipQuestions(buffer, res.readBytes + 4, count - 1)

\* Lines 152-156: the records are parsed one after the other.
RECURSIVE ParseRecords(_, _, _, _)
ParseRecords(buffer, offset, count, records) ==
    IF count = 0 THEN [status |-> "ok", records |-> records]
    ELSE LET record == parseRecord(buffer, offset) IN
         IF record.status # "ok" THEN [status |-> record.status]
         ELSE ParseRecords(buffer, record.offset, count - 1, Append(records, record))

\* parseDNSMessage taking ancount alone as the number of records.
parseDNSMessageAnswersOnly(buffer) ==
    IF ~CanRead(buffer, 0, 12) THEN [status |-> "RangeError"]
    ELSE LET header == [id |-> readUInt16BE(buffer, 0),
                        flags |-> readUInt16BE(buffer, 2),
                        qdcount |-> readUInt16BE(buffer, 4),
                        ancount |-> readUInt16BE(buffer, 6),
                        nscount |-> readUInt16BE(buffer, 8),
                        arcount |-> readUInt16BE(buffer, 10)]
             questions == SkipQuestions(buffer, 12, header.qdcount)
         IN  IF questions.status # "ok" THEN [status |-> questions.status]
             ELSE LET parsed == ParseRecords(buffer, questions.offset, header.ancount, <<>>)
                  IN  IF parsed.status # "ok" THEN [status |-> parsed.status]
                      ELSE [status |-> "ok", header |-> header,
                            records |-> parsed.records]

parseDNSMessage(buffer) ==
    IF ~CanRead(buffer, 0, 12) THEN [status |-> "RangeError"]
    ELSE LET header == [id |-> readUInt16BE(buffer, 0),
                        flags |-> readUInt16BE(buffer, 2),
                        qdcount |-> readUInt16BE(buffer, 4),
                        ancount |-> readUInt16BE(buffer, 6),
                        nscount |-> readUInt16BE(buffer, 8),
                        arcount |-> readUInt16BE(buffer, 10)]
             questions == SkipQuestions(buffer, 12, header.qdcount)
         IN  IF questions.status # "ok" THEN [status |-> questions.status]
             ELSE LET totalRecords == header.ancount + header.nscount + header.arcount
                      parsed == ParseRecords(buffer, questions.offset, totalRecords, <<>>)
                  IN  IF parsed.status # "ok" THEN [status |-> parsed.status]
                      ELSE [status |-> "ok", header |-> header,
                            records |-> parsed.records]

(***************************************************************************)
(* The plain objects of the two message handlers.  The service table is    *)
(* an object literal, const services = {} (testing1.js:167, and            *)
(* nativeMdnsDiscovery.js:165), and so is each of its entries: a read of   *)
(* services[key] finds the own property of that name or, failing that,     *)
(* what Object.prototype holds under it.  A table, an entry and a TXT      *)
(* mapping are the mappings of their own properties.                       *)
(***************************************************************************)
PropName == <<110, 97, 109, 101>>                                   \* "name"
PropPort == <<112, 111, 114, 116>>                                  \* "port"
PropTarget == <<116, 97, 114, 103, 101, 116>>                       \* "target"
PropTxt == <<116, 120, 116>>                                        \* "txt"
PropAddresses == <<97, 100, 100, 114, 101, 115, 115, 101, 115>>     \* "addresses"

\* The methods of Object.prototype: constructor, hasOwnProperty,
\* isPrototypeOf, propertyIsEnumerable, toLocaleString, toString, valueOf,
\* __defineGetter__, __defineSetter__, __lookupGetter__, __lookupSetter__.
\* None of them is enumerable.
BuiltinNames ==
    {<<99, 111, 110, 115, 116, 114, 117, 99, 116, 111, 114>>,
     <<104, 97, 115, 79, 119, 110, 80, 114, 111, 112, 101, 114, 116, 121>>,
     <<105, 115, 80, 114, 111, 116, 111, 116, 121, 112, 101, 79, 102>>,
     <<112, 114, 111, 112, 101, 114, 116, 121, 73, 115, 69, 110, 117, 109, 101, 114,
       97, 98, 108, 101>>,
     <<116, 111, 76, 111, 99, 97, 108, 101, 83, 116, 114, 105, 110, 103>>,
     <<116, 111, 83, 116, 114, 105, 110, 103>>,
     <<118, 97, 108, 117, 101, 79, 102>>,
     <<95, 95, 100, 101, 102, 105, 110, 101, 71, 101, 116, 116, 101, 114, 95, 95>>,
     <<95, 95, 100, 101, 102, 105, 110, 101, 83, 101, 116, 116, 101, 114, 95, 95>>,
     <<95, 95, 108, 111, 111, 107, 117, 112, 71, 101, 116, 116, 101, 114, 95, 95>>,
     <<95, 95, 108, 111, 111, 107, 117, 112, 83, 101, 116, 116, 101, 114, 95, 95>>}

\* The values a property holds, besides a string and true.
Undefined == [undefined |-> TRUE]
NumberValue(n) == [number |-> n]
ObjectValue(props) == [object |-> props]        \* an object, by its own properties
ArrayValue(items) == [array |-> items]
FunctionValue == [function |-> TRUE]            \* a method of Object.prototype
PrototypeValue == [prototype |-> TRUE]          \* Object.prototype itself

IsObject(v) == "object" \in DOMAIN v
IsString(v, str) == "string" \in DOMAIN v /\ v.string = str

\* !value is false.
Truthy(v) ==
    /\ "undefined" \notin DOMAIN v
    /\ ~("number" \in DOMAIN v /\ v.number = 0)
    /\ ~("string" \in DOMAIN v /\ v.string = <<>>)

\* Object.prototype as a program finds it when it starts: props are the
\* properties the program has added to it since, keys their names in the
\* order they were added, the order in which for-in lists them.
CleanPrototype == [props |-> EmptyObject, keys |-> <<>>]

\* What an object without an own property key inherits under that name.
\* __proto__ is the accessor that returns Object.prototype.
Inherited(key, proto) ==
    IF key \in DOMAIN proto.props THEN proto.props[key]
    ELSE IF key = ProtoKey THEN PrototypeValue
    ELSE IF key \in BuiltinNames THEN FunctionValue
    ELSE Undefined

\* services[key]
Lookup(table, proto, key) ==
    IF key \in DOMAIN table THEN ObjectValue(table[key]) ELSE Inherited(key, proto)

\* value.target and value.addresses: the own property of an object, and
\* for every value what it inherits from Object.prototype.
GetProperty(v, key, proto) ==
    IF IsObject(v) /\ key \in DOMAIN v.object THEN v.object[key]
    ELSE Inherited(key, proto)

\* Object.prototype[p] = value
AddToPrototype(proto, p, value) ==
    [props |-> SetProperty(proto.props, p, value),
     keys |-> IF p \in DOMAIN proto.props THEN proto.keys ELSE Append(proto.keys, p)]

\* services[key].p = value.  The property is set on what services[key]
\* reads as: an entry of the table; or Object.prototype, for the key
\* __proto__; or an object that Object.prototype holds under that key.  On a
\* number or a string the assignment does nothing (the scripts are not in
\* strict mode); on a method of Object.prototype it sets a property of that
\* function, which no statement of the handlers reads.
Assign(table, proto, key, p, value) ==
    IF key \in DOMAIN table
    THEN [services |-> [table EXCEPT ![key] = SetProperty(@, p, value)],
          prototype |-> proto]
    ELSE IF key \in DOMAIN proto.props
    THEN IF IsObject(proto.props[key])
         THEN [services |-> table,
               prototype |-> [proto EXCEPT !.props[key] =
                                    ObjectValue(SetProperty(@.object, p, value))]]
         ELSE [services |-> table, prototype |-> proto]
    ELSE IF key = ProtoKey
    THEN [services |-> table, prototype |-> AddToPrototype(proto, p, value)]
    ELSE [services |-> table, prototype |-> proto]

\* if (!services[key]) { services[key] = { name: key }; }
Register(table, proto, key) ==
    IF Truthy(Lookup(table, proto, key)) THEN table
    ELSE [k \in (DOMAIN table) \cup {key} |->
            IF k = key THEN [p \in {PropName} |-> StringValue(key)] ELSE table[k]]

\* services[instance].target === rec.name
TargetIs(v, name, proto) == IsString(GetProperty(v, PropTarget, proto), name)

\* Lines 203-206 on an object with the own properties props:
\* if (!x.addresses) { x.addresses = []; }  x.addresses.push(rec.rdata);
\* push on what is not an array throws a TypeError.  No statement sets
\* Object.prototype.addresses, so that an array found is an own property.
PushAddress(props, address, proto) ==
    LET before == GetProperty(ObjectValue(props), PropAddresses, proto)
        made == IF Truthy(before) THEN props
                ELSE SetProperty(props, PropAddresses, ArrayValue(<<>>))
        list == GetProperty(ObjectValue(made), PropAddresses, proto)
    IN  IF "array" \in DOMAIN list
        THEN [status |-> "ok",
              props |-> SetProperty(made, PropAddresses,
                                    ArrayValue(Append(list.array, address)))]
        ELSE [status |-> "TypeError", props |-> made]

\* The part of for (const instance in services) that runs over the names
\* inherited from Object.prototype, after the own names of the table.  On a
\* number or a string x.addresses = [] does nothing and x.addresses.push
\* throws.
RECURSIVE AttachInherited(_, _, _, _)
AttachInherited(table, proto, rec, i) ==
    IF i > Len(proto.keys)
    THEN [status |-> "ok", services |-> table, prototype |-> proto]
    ELSE LET key == proto.keys[i]
             v == proto.props[key]
         IN  IF key \in DOMAIN table \/ ~TargetIs(v, rec.name, proto)
             THEN AttachInherited(table, proto, rec, i + 1)
             ELSE IF ~IsObject(v)
             THEN [status |-> "TypeError", services |-> table, prototype |-> proto]
             ELSE LET pushed == PushAddress(v.object, rec.rdata, proto)
                      after == [proto EXCEPT !.props[key] = ObjectValue(pushed.props)]
                  IN  IF pushed.status # "ok"
                      THEN [status |-> pushed.status, services |-> table,
                            prototype |-> after]
                      ELSE AttachInherited(table, after, rec, i + 1)

\* Lines 201-208, the A branch: the address is pushed to every entry whose
\* target is the name of the record.  The addresses of an entry are set by
\* this branch only, so that the push to an entry does not throw.
AttachAddress(table, proto, rec) ==
    LET own == [k \in DOMAIN table |->
                    IF TargetIs(ObjectValue(table[k]), rec.name, proto)
                    THEN PushAddress(table[k], rec.rdata, proto).props
                    ELSE table[k]]
    IN  AttachInherited(own, proto, rec, 1)

\* name.endsWith(suffix)
endsWith(str, suffix) ==
    /\ Len(suffix) <= Len(str)
    /\ SubSeq(str, Len(str) - Len(suffix) + 1, Len(str)) = suffix

\* testing1.js:162-164
isSmartIPService(name) ==
    name = DefaultServiceQuery \/ endsWith(name, <<Dot>> \o DefaultServiceQuery)

\* services[rec.name] is registered and given the port and the target of an
\* SRV record (lines 186-190), or the mapping of a TXT record (194-197).
StoreSrv(table, proto, rec) ==
    LET made == Register(table, proto, rec.name)
        port == Assign(made, proto, rec.name, PropPort, NumberValue(rec.rdata.port))
    IN  Assign(port.services, port.prototype, rec.name, PropTarget,
               StringValue(rec.rdata.target))

StoreTxt(table, proto, rec) ==
    Assign(Register(table, proto, rec.name), proto, rec.name, PropTxt,
           ObjectValue(rec.rdata))

Handled(result) ==
    [status |-> "ok", services |-> result.services, prototype |-> result.prototype]

Untouched(table, proto) == [status |-> "ok", services |-> table, prototype |-> proto]

\* The handler of testing1.js with the SRV and TXT branches taking a record
\* of any name.
HandleRecordAnyName(table, proto, rec) ==
    IF rec.type = 12 /\ rec.name = DefaultServiceQuery
    THEN Untouched(Register(table, proto, rec.rdata), proto)
    ELSE IF rec.type = 33
    THEN Handled(StoreSrv(table, proto, rec))
    ELSE IF rec.type = 16
    THEN Handled(StoreTxt(table, proto, rec))
    ELSE IF rec.type = 1
    THEN AttachAddress(table, proto, rec)
    ELSE Untouched(table, proto)

\* testing1.js:176-210, the body of for (const rec of parsed.records).
HandleRecord(table, proto, rec) ==
    IF rec.type = 12 /\ rec.name = DefaultServiceQuery
    THEN Untouched(Register(table, proto, rec.rdata), proto)
    ELSE IF rec.type = 33 /\ isSmartIPService(rec.name)
    THEN Handled(StoreSrv(table, proto, rec))
    ELSE IF rec.type = 16 /\ isSmartIPService(rec.name)
    THEN Handled(StoreTxt(table, proto, rec))
    ELSE IF rec.type = 1
    THEN AttachAddress(table, proto, rec)
    ELSE Untouched(table, proto)

\* The handler of nativeMdnsDiscovery.js with the PTR branch comparing the
\* name of the record with the service name without its trailing dot.
NativeHandleRecordNoDot(table, proto, rec) ==
    IF rec.type = 12 /\ rec.name = DefaultServiceQuery
    THEN Untouched(Register(table, proto, rec.rdata), proto)
    ELSE IF rec.type = 33
    THEN Handled(StoreSrv(table, proto, rec))
    ELSE IF rec.type = 1
    THEN AttachAddress(table, proto, rec)
    ELSE IF rec.type = 16
    THEN Handled(StoreTxt(table, proto, rec))
    ELSE Untouched(table, proto)

\* nativeMdnsDiscovery.js:168-201, the body of the loop over the records.
\* serviceQuery is '_smart_ip._tcp.local.' (line 5).
NativeHandleRecord(table, proto, rec) ==
    IF rec.type = 12 /\ rec.name = NativeServiceQuery
    THEN Untouched(Register(table, proto, rec.rdata), proto)
    ELSE IF rec.type = 33
    THEN Handled(StoreSrv(table, proto, rec))
    ELSE IF rec.type = 1
    THEN AttachAddress(table, proto, rec)
    ELSE IF rec.type = 16
    THEN Handled(StoreTxt(table, proto, rec))
    ELSE Untouched(table, proto)

\* The loop over the records of a parse: the table before the first record
\* and after each record handled, up to the one that threw.
RECURSIVE HandleRecords(_, _, _, _)
HandleRecords(records, i, proto, trace) ==
    IF i > Len(records) THEN [status |-> "ok", steps |-> trace, prototype |-> proto]
    ELSE LET r == HandleRecord(trace[Len(trace)], proto, records[i]) IN
         IF r.status # "ok"
         THEN [status |-> r.status, steps |-> Append(trace, r.services),
               prototype |-> r.prototype]
         ELSE HandleRecords(records, i + 1, r.prototype, Append(trace, r.services))

RECURSIVE NativeHandleRecords(_, _, _, _)
NativeHandleRecords(records, i, proto, trace) ==
    IF i > Len(records) THEN [status |-> "ok", steps |-> trace, prototype |-> proto]
    ELSE LET r == NativeHandleRecord(trace[Len(trace)], proto, records[i]) IN
         IF r.status # "ok"
         THEN [status |-> r.status, steps |-> Append(trace, r.services),
               prototype |-> r.prototype]
         ELSE NativeHandleRecords(records, i + 1, r.prototype, Append(trace, r.services))

\* testing1.js:213-228: the entries printed, those whose name is that of the
\* service or ends with it.
Displayed(table) ==
    {k \in DOMAIN table : isSmartIPService(table[k][PropName].string)}

(***************************************************************************)
(* The query encoder and the decoding of its question section.             *)
(***************************************************************************)
NameChars == {97, Dot, 233}     \* 'a', '.', and the two-byte character U+00E9

ServiceNames ==
    SeqsUpTo(NameChars, MaxNameLen) \cup {DefaultServiceQuery, NativeServiceQuery}

NoCall == [status |-> "none"]
NoDatagram == [bytes |-> <<>>, wellFormed |-> FALSE, records |-> 0, first |-> 0]

\* The two listeners before the first datagram.
NoListener ==
    /\ services = EmptyObject
    /\ shown = {}
    /\ steps = <<>>
    /\ prototype = CleanPrototype
    /\ nativeSteps = <<>>
    /\ stream = <<>>
    /\ pending = {}
    /\ hung = {}

InitQuery ==
    /\ op = "init"
    /\ fullServiceQuery \in ServiceNames
    /\ query = NoCall
    /\ sent = NoDatagram
    /\ msg = <<>>
    /\ at = 0
    /\ out = NoCall
    /\ NoListener

\* testing1.js:254, the bind callback builds the query.
BuildQuery ==
    /\ op = "init"
    /\ op' = "buildQuery"
    /\ query' = buildQuery(fullServiceQuery)
    /\ UNCHANGED <<fullServiceQuery, sent, msg, at, out>>
    /\ UNCHANGED listenerVars

\* The question section of the built query is decoded: readName at offset 12.
DecodeQuestion ==
    /\ op = "buildQuery"
    /\ query.status = "ok"
    /\ op' = "decodeQuestion"
    /\ msg' = query.buffer
    /\ at' = 12
    /\ out' = readName(query.buffer, 12)
    /\ UNCHANGED <<fullServiceQuery, query, sent>>
    /\ UNCHANGED listenerVars

NextQuery == BuildQuery \/ DecodeQuestion

SpecQuery == InitQuery /\ [][NextQuery]_vars

\* The labels of a name: the pieces between its dots.
Labels(name) == split(name)

\* A name made of non-empty labels, each at most 63 bytes long on the wire.
ValidName(name) ==
    \A i \in 1..Len(Labels(name)) :
        /\ Labels(name)[i] # <<>>
        /\ Len(Utf8Encode(Labels(name)[i])) <= 63

IsAscii(str) == \A i \in 1..Len(str) : str[i] < 128

\* C1: round trip.  For every name made of non-empty labels of at most 63
\* bytes, readName at offset 12 of the encoded query returns that name, ends
\* 4 bytes before the end of the buffer, and the two big-endian 16-bit
\* fields at that position are 12 and 1.
C1_RoundTrip ==
    (op = "decodeQuestion" /\ ValidName(fullServiceQuery)) =>
        /\ out.status = "ok"
        /\ out.name = fullServiceQuery
        /\ out.readBytes = Len(msg) - 4
        /\ readUInt16BE(msg, out.readBytes) = 12
        /\ readUInt16BE(msg, out.readBytes + 2) = 1

\* The round trip does hold for the names whose labels are ASCII.
C1_RoundTripAscii == IsAscii(fullServiceQuery) => C1_RoundTrip

\* A label's length, read as its byte count on the wire or as its count of
\* code units.
LabelLength(label, reading) ==
    IF reading = "bytes" THEN Len(Utf8Encode(label)) ELSE Len(label)

\* The wire form of a name: each label's length, then its bytes, then zero.
RECURSIVE WireName(_, _)
WireName(labels, reading) ==
    IF labels = <<>> THEN <<0>>
    ELSE <<LabelLength(Head(labels), reading)>> \o Utf8Encode(Head(labels))
            \o WireName(Tail(labels), reading)

RECURSIVE SumOfLengths(_, _)
SumOfLengths(labels, reading) ==
    IF labels = <<>> THEN 0
    ELSE LabelLength(Head(labels), reading) + 1 + SumOfLengths(Tail(labels), reading)

NonEmptyLabels(name) == SelectSeq(Labels(name), LAMBDA part : part # <<>>)

QueryLayout(buffer, name, reading) ==
    LET labels == NonEmptyLabels(name) IN
    /\ buffer = <<0, 0, 0, 0, 0, 1, 0, 0, 0, 0, 0, 0>> \o WireName(labels, reading)
                    \o <<0, 12, 0, 1>>
    /\ Len(buffer) = 12 + SumOfLengths(labels, reading) + 1 + 4
    /\ \A i \in 1..Len(labels) : LabelLength(labels[i], reading) < 192

\* C2: the buffer buildQuery returns is the 12-byte header (qdcount 1, all
\* else 0), then for each label one length byte equal to the label's length
\* and the label's bytes, then a zero byte, then 12 and 1 as big-endian
\* 16-bit values; no length byte is a pointer byte; and the total length is
\* 12 + sum(label length + 1) + 1 + 4.  The label's length is read either as
\* its byte count or as its count of code units, the same way throughout.
C2_QueryLayout ==
    (op = "buildQuery" /\ ValidName(fullServiceQuery)) =>
        /\ query.status = "ok"
        /\ \/ QueryLayout(query.buffer, fullServiceQuery, "bytes")
           \/ QueryLayout(query.buffer, fullServiceQuery, "units")

\* The layout does hold for the names whose labels are ASCII.
C2_QueryLayoutAscii == IsAscii(fullServiceQuery) => C2_QueryLayout

\* The bytes the specification lists for _smart_ip._tcp.local, type 12, class 1.
ScenarioQueryBytes ==
    <<0, 0, 0, 0, 0, 1, 0, 0, 0, 0, 0, 0>>
        \o <<9, 95, 115, 109, 97, 114, 116, 95, 105, 112>>
        \o <<4, 95, 116, 99, 112>>
        \o <<5, 108, 111, 99, 97, 108>>
        \o <<0>>
        \o <<0, 12, 0, 1>>

\* C3 as stated: the query for _smart_ip._tcp.local is the listed byte
\* sequence and is 39 bytes long.
C3_ScenarioQuery39 ==
    (op = "buildQuery" /\ fullServiceQuery = DefaultServiceQuery) =>
        /\ query.status = "ok"
        /\ query.buffer = ScenarioQueryBytes
        /\ Len(query.buffer) = 39

\* C3 amended: the query for _smart_ip._tcp.local is the listed byte
\* sequence, which is 38 bytes long.
C3_ScenarioQuery38 ==
    (op = "buildQuery" /\ fullServiceQuery = DefaultServiceQuery) =>
        /\ query.status = "ok"
        /\ query.buffer = ScenarioQueryBytes
        /\ Len(query.buffer) = 38

C3_Witness ==
    /\ op = "buildQuery"
    /\ fullServiceQuery = DefaultServiceQuery
    /\ query.status = "ok"

(***************************************************************************)
(* readName on raw buffers.                                                *)
(***************************************************************************)
\* The terminator, label lengths 1..4, the letter 'a', and the first byte
\* of a pointer: 192 followed by b is a pointer to offset b.
RawBytes == {0, 1, 2, 3, 4, 97, 192}

RawBuffers == SeqsUpTo(RawBytes, MaxRawLen)

InitName ==
    /\ op = "init"
    /\ fullServiceQuery = DefaultServiceQuery
    /\ query = NoCall
    /\ sent = NoDatagram
    /\ msg \in RawBuffers
    /\ at \in 0..Len(msg)
    /\ out = NoCall
    /\ NoListener

\* One call readName(msg, at).
ReadNameCall ==
    /\ op = "init"
    /\ op' = "readName"
    /\ out' = readName(msg, at)
    /\ UNCHANGED <<fullServiceQuery, query, sent, msg, at>>
    /\ UNCHANGED listenerVars

NextName == ReadNameCall

SpecName == InitName /\ [][NextName]_vars

\* The wire format read without following any pointer: the labels from
\* offset up to the zero terminator (kind "end") or up to the first pointer
\* (kind "pointer", with its target); end is the offset just after that
\* terminator or pointer.  kind is "cut" when the buffer ends first.
RECURSIVE Linear(_, _, _)
Linear(buffer, offset, labels) ==
    IF ~CanRead(buffer, offset, 1) THEN [kind |-> "cut"]
    ELSE LET length == buffer[offset + 1] IN
         IF length = 0 THEN [kind |-> "end", end |-> offset + 1, labels |-> labels]
         ELSE IF length >= 192
              THEN IF ~CanRead(buffer, offset, 2) THEN [kind |-> "cut"]
                   ELSE [kind |-> "pointer", end |-> offset + 2, labels |-> labels,
                         target |-> (length - 192) * 256 + buffer[offset + 2]]
         ELSE IF ~CanRead(buffer, offset + 1, length) THEN [kind |-> "cut"]
         ELSE Linear(buffer, offset + 1 + length,
                     Append(labels, toString(buffer, offset + 1, offset + 1 + length)))

\* A well-formed uncompressed name starts at offset p.
UncompressedNameAt(buffer, p) ==
    LET lin == Linear(buffer, p, <<>>) IN
    /\ lin.kind = "end"
    /\ \A i \in 1..Len(lin.labels) : Len(Utf8Encode(lin.labels[i])) <= 63

\* A 2-byte pointer to offset p is stored at offset q.
PointerAt(buffer, q, p) ==
    LET lin == Linear(buffer, q, <<>>) IN
    lin.kind = "pointer" /\ lin.end = q + 2 /\ lin.target = p

\* C4: where a well-formed uncompressed name starts at p and a 2-byte
\* pointer to p is stored at q, readName at q returns the name readName
\* returns at p, and reports q + 2 as its end position.
C4_PointerToName ==
    op = "readName" =>
        \A p \in 0..Len(msg) :
            (PointerAt(msg, at, p) /\ UncompressedNameAt(msg, p)) =>
                /\ out.status = "ok"
                /\ readName(msg, p).status = "ok"
                /\ out.name = readName(msg, p).name
                /\ out.name = join(Linear(msg, p, <<>>).labels)
                /\ out.readBytes = at + 2

C4_Witness ==
    /\ op = "readName"
    /\ \E p \in 0..Len(msg) :
            /\ PointerAt(msg, at, p)
            /\ UncompressedNameAt(msg, p)
            /\ Len(Linear(msg, p, <<>>).labels) = 2
    /\ out.status = "ok"
    /\ out.readBytes = at + 2

\* The name made of the labels of two names.
ConcatNames(a, b) ==
    IF a = <<>> THEN b ELSE IF b = <<>> THEN a ELSE a \o <<Dot>> \o b

\* C5: a readName call that returns reports, when no pointer was followed,
\* the offset just after the zero terminator; and when a pointer was
\* followed, the offset of the first pointer plus 2, whatever labels came
\* before it and wherever the decoding went after it.  After a jump the
\* labels are those at the target: reading never resumes after the pointer.
C5_ReadBytes ==
    (op = "readName" /\ out.status = "ok") =>
        LET lin == Linear(msg, at, <<>>) IN
        /\ lin.kind \in {"end", "pointer"}
        /\ out.readBytes = lin.end
        /\ lin.kind = "end" => out.name = join(lin.labels)
        /\ lin.kind = "pointer" =>
                /\ readName(msg, lin.target).status = "ok"
                /\ out.name = ConcatNames(join(lin.labels), readName(msg, lin.target).name)

\* A call that followed two pointers in a row and returned a name with a label.
C5_Witness ==
    /\ op = "readName"
    /\ out.status = "ok"
    /\ out.name # <<>>
    /\ LET lin == Linear(msg, at, <<>>) IN
        /\ lin.kind = "pointer"
        /\ Linear(msg, lin.target, <<>>).kind = "pointer"
        /\ out.readBytes = at + 2

\* C6: name decoding terminates on every buffer: a readName call returns
\* or fails, also where a pointer points to itself or pointers form a cycle.
C6_Terminates == op = "readName" => out.status \in {"ok", "RangeError", "NameCompressionLoop"}

(***************************************************************************)
(* The datagrams handed to the decoder.  A datagram is described by its    *)
(* bytes, whether it is a well-formed message, the number of records it    *)
(* holds and the offset of the first of them.                              *)
(***************************************************************************)
Pointer(p) == <<192 + (p \div 256), p % 256>>

Header(qdcount, ancount, nscount, arcount) ==
    <<0, 0, 132, 0>> \o writeUInt16BE(qdcount) \o writeUInt16BE(ancount)
        \o writeUInt16BE(nscount) \o writeUInt16BE(arcount)

\* A record of class IN with a TTL of 120 seconds.
Record(owner, type, rdlength, rdata) ==
    owner \o writeUInt16BE(type) \o <<0, 1>> \o <<0, 0, 0, 120>>
        \o writeUInt16BE(rdlength) \o rdata

\* The question a.b PTR IN: the name a.b is at offset 12 and b at offset 14
\* of every datagram that has a question.
ShortQuestion == <<1, 97, 1, 98, 0>> \o <<0, 12, 0, 1>>

RECURSIVE Repeat(_, _)
Repeat(bytes, n) == IF n = 0 THEN <<>> ELSE bytes \o Repeat(bytes, n - 1)

NameC == <<1, 99, 0>>       \* the name c, uncompressed

\* Names that may appear in a datagram with qdcount questions: pointers into
\* the question section need a question.
Owners(qdcount) == {NameC} \cup (IF qdcount > 0 THEN {Pointer(12)} ELSE {})
PtrTargets(qdcount) ==
    {NameC} \cup (IF qdcount > 0 THEN {<<1, 99>> \o Pointer(14)} ELSE {})
SrvTargets(qdcount) == {NameC} \cup (IF qdcount > 0 THEN {Pointer(12)} ELSE {})

\* TXT sub-strings: "", "a" and "a=b"; a record holds 1..MaxTxtStrings of them.
TxtTexts == {<<>>, <<97>>, <<97, 61, 98>>}

TxtStringBytes(texts) == Flatten([i \in 1..Len(texts) |-> <<Len(texts[i])>> \o texts[i]])

TxtRdatas == {TxtStringBytes(texts) : texts \in SeqsUpTo(TxtTexts, MaxTxtStrings) \ {<<>>}}

\* rdata of each kind, with the type code; 47 is a type parseRecord does
\* not interpret.
WellFormedRdatas(qdcount) ==
    {<<12, target>> : target \in PtrTargets(qdcount)}
        \cup {<<33, <<0, 0, 0, 0, 31, 144>> \o target>> : target \in SrvTargets(qdcount)}
        \cup {<<16, rdata>> : rdata \in TxtRdatas}
        \cup {<<1, <<192, 168, 1, 5>>>>}
        \cup {<<47, <<1, 2, 3>>>>, <<47, <<>>>>}

WellFormedRecords(qdcount) ==
    {Record(owner, r[1], Len(r[2]), r[2]) :
        owner \in Owners(qdcount), r \in WellFormedRdatas(qdcount)}

\* One record of each kind, for the datagrams with several records.
OneOfEach ==
    {Record(NameC, 12, 3, NameC),
     Record(NameC, 33, 9, <<0, 0, 0, 0, 31, 144>> \o NameC),
     Record(NameC, 16, 4, <<3, 97, 61, 98>>),
     Record(NameC, 1, 4, <<192, 168, 1, 5>>),
     Record(NameC, 47, 3, <<1, 2, 3>>)}

\* The splits of n records over the answer, authority and additional counts.
Counts(n) == {c \in (0..n) \X (0..n) \X (0..n) : c[1] + c[2] + c[3] = n}

Datagram(qdcount, counts, records, wellFormed) ==
    [bytes |-> Header(qdcount, counts[1], counts[2], counts[3])
                    \o Repeat(ShortQuestion, qdcount) \o Flatten(records),
     wellFormed |-> wellFormed,
     records |-> Len(records),
     first |-> 12 + qdcount * Len(ShortQuestion)]

\* Well-formed datagrams with one record, of every kind.
SingleRecordDatagrams ==
    UNION {{Datagram(q, <<1, 0, 0>>, <<r>>, TRUE) : r \in WellFormedRecords(q)} :
            q \in 0..MaxQuestions}

\* Well-formed datagrams with 0..MaxRecords records.
SeveralRecordDatagrams ==
    UNION {{Datagram(q, c, rs, TRUE) : c \in Counts(Len(rs))} :
            q \in 0..MaxQuestions, rs \in SeqsUpTo(OneOfEach, MaxRecords)}

\* Datagrams with one TXT record whose rdata is any byte sequence.
TxtBytes == {0, 1, 2, 97, 61}

RawTxtDatagrams ==
    {Datagram(0, <<1, 0, 0>>, <<Record(NameC, 16, Len(rdata), rdata)>>, FALSE) :
        rdata \in SeqsUpTo(TxtBytes, MaxTxtLen)}

\* The datagram of the PTR scenario: the question _smart_ip._tcp.local PTR IN
\* (its name at offset 12, the label local at offset 27), and one PTR record
\* whose name is a pointer to offset 12 and whose rdata is the label
\* Device-A followed by a pointer to the given offset.
DeviceA == <<68, 101, 118, 105, 99, 101, 45, 65>>   \* "Device-A"
QuestionNameOffset == Len(QueryHeader)
LocalSuffixOffset == QuestionNameOffset + 1 + Len(SmartIp) + 1 + Len(Tcp)

ScenarioQuestion ==
    <<9>> \o SmartIp \o <<4>> \o Tcp \o <<5>> \o Local \o <<0>> \o <<0, 12, 0, 1>>

PtrScenario(target) ==
    [bytes |-> <<0, 0, 132, 0, 0, 1, 0, 1, 0, 0, 0, 0>> \o ScenarioQuestion
                    \o Pointer(QuestionNameOffset) \o <<0, 12, 0, 1, 0, 0, 0, 120, 0, 11>>
                    \o <<8>> \o DeviceA \o Pointer(target),
     wellFormed |-> TRUE,
     records |-> 1,
     first |-> 12 + Len(ScenarioQuestion)]

\* The datagrams of the TXT scenario: one TXT record of rdlength 13 whose
\* rdata is the 13 bytes listed, the first of them 06, or 07, the length of
\* the sub-string ver=1.0.
TxtScenarioRdata(first) ==
    <<first, 118, 101, 114, 61, 49, 46, 48, 4, 102, 108, 97, 103>>

TxtScenario(first) ==
    Datagram(0, <<1, 0, 0>>, <<Record(NameC, 16, 13, TxtScenarioRdata(first))>>, first = 7)

\* Datagrams of two records after one question, the first with a declared
\* rdlength of anything from 0 to one more than the bytes of its rdata: a
\* PTR or SRV record whose name ends before or after rdata start + rdlength,
\* an A record of 0 to 6 bytes, a record of a type parseRecord does not
\* interpret.  The second record is an A record.
DeclaredRdatas ==
    {<<12, target>> : target \in PtrTargets(1) \cup {Pointer(12)}}
        \cup {<<33, <<0, 0, 0, 0, 31, 144>> \o target>> :
                    target \in PtrTargets(1) \cup {Pointer(12)}}
        \cup {<<1, <<192, 168, 1, 5, 7>>>>}
        \cup {<<47, <<1, 2, 3>>>>}

DeclaredLengthDatagrams ==
    UNION {{Datagram(1, <<2, 0, 0>>,
                     <<Record(NameC, r[1], rdlength, r[2]),
                       Record(NameC, 1, 4, <<192, 168, 1, 5>>)>>, FALSE) :
                rdlength \in 0..(Len(r[2]) + 1)} :
            r \in DeclaredRdatas}

\* Datagrams with one TXT record of 1..MaxTxtStrings sub-strings out of
\* a=b, a=c, a, a=b=c, =, __proto__ and __proto__=a: a key twice, a value
\* with an '=', an empty key, and the key __proto__.
TxtKeyTexts ==
    {<<97, 61, 98>>, <<97, 61, 99>>, <<97>>, <<97, 61, 98, 61, 99>>, <<61>>,
     ProtoKey, ProtoKey \o <<61, 97>>}

TxtKeyDatagrams ==
    {Datagram(0, <<1, 0, 0>>,
              <<Record(NameC, 16, Len(TxtStringBytes(texts)), TxtStringBytes(texts))>>,
              TRUE) :
        texts \in SeqsUpTo(TxtKeyTexts, MaxTxtStrings) \ {<<>>}}

ScenarioDatagrams ==
    {PtrScenario(LocalSuffixOffset), PtrScenario(QuestionNameOffset),
     TxtScenario(6), TxtScenario(7)}

Datagrams ==
    SingleRecordDatagrams \cup SeveralRecordDatagrams \cup RawTxtDatagrams
        \cup DeclaredLengthDatagrams \cup TxtKeyDatagrams \cup ScenarioDatagrams

\* The datagram is cut short anywhere, or arrives whole.
InitMessage ==
    /\ op = "init"
    /\ fullServiceQuery = DefaultServiceQuery
    /\ query = NoCall
    /\ sent \in Datagrams
    /\ \E cut \in 0..Len(sent.bytes) : msg = SubSeq(sent.bytes, 1, cut)
    /\ at = sent.first
    /\ out = NoCall
    /\ NoListener

\* One call parseDNSMessage(msg).
ParseMessageCall ==
    /\ op = "init"
    /\ op' = "parseDNSMessage"
    /\ out' = parseDNSMessage(msg)
    /\ UNCHANGED <<fullServiceQuery, query, sent, msg, at>>
    /\ UNCHANGED listenerVars

\* One call parseRecord(msg, at), at the first record of the datagram.
ParseRecordCall ==
    /\ op = "init"
    /\ op' = "parseRecord"
    /\ out' = parseRecord(msg, at)
    /\ UNCHANGED <<fullServiceQuery, query, sent, msg, at>>
    /\ UNCHANGED listenerVars

NextMessage == ParseMessageCall \/ ParseRecordCall

SpecMessage == InitMessage /\ [][NextMessage]_vars

\* C7: a well-formed message cut anywhere before the end of its last record
\* makes parseDNSMessage fail with an error: it never returns a parse.
C7_TruncationFails ==
    (/\ op = "parseDNSMessage"
     /\ sent.wellFormed
     /\ sent.records >= 1
     /\ Len(msg) < Len(sent.bytes)) => out.status = "RangeError"

\* The type of the first record of the datagram as it was sent.
FirstRecordType == readUInt16BE(sent.bytes, Linear(sent.bytes, sent.first, <<>>).end)

\* The cuts the decoder does reject: every cut of a well-formed datagram
\* whose one record is of type A, PTR or SRV.
C7_AddressAndNameRecordsFail ==
    (sent.wellFormed /\ sent.records = 1 /\ FirstRecordType \in {1, 12, 33}) =>
        C7_TruncationFails

\* C8 as stated: with the rdata pointer to the .local suffix of the question
\* name, the record decodes to name _smart_ip._tcp.local and rdata
\* Device-A._smart_ip._tcp.local.
C8_PtrScenarioFullName ==
    (op = "parseDNSMessage" /\ msg = PtrScenario(LocalSuffixOffset).bytes) =>
        /\ out.status = "ok"
        /\ Len(out.records) = 1
        /\ out.records[1].name = DefaultServiceQuery
        /\ out.records[1].rdata = DeviceA \o <<Dot>> \o DefaultServiceQuery

\* C8 amended: with the rdata pointer to the .local suffix (offset 27) the
\* record decodes to name _smart_ip._tcp.local and rdata Device-A.local;
\* the rdata is Device-A._smart_ip._tcp.local when the pointer is to offset
\* 12, the start of the question name.
C8_PtrScenario ==
    /\ (op = "parseDNSMessage" /\ msg = PtrScenario(LocalSuffixOffset).bytes) =>
            /\ out.status = "ok"
            /\ Len(out.records) = 1
            /\ out.records[1].type = 12
            /\ out.records[1].name = DefaultServiceQuery
            /\ out.records[1].rdata = DeviceA \o <<Dot>> \o Local
    /\ (op = "parseDNSMessage" /\ msg = PtrScenario(QuestionNameOffset).bytes) =>
            /\ out.status = "ok"
            /\ Len(out.records) = 1
            /\ out.records[1].type = 12
            /\ out.records[1].name = DefaultServiceQuery
            /\ out.records[1].rdata = DeviceA \o <<Dot>> \o DefaultServiceQuery

C8_Witness ==
    /\ op = "parseDNSMessage"
    /\ msg = PtrScenario(LocalSuffixOffset).bytes
    /\ out.status = "ok"

\* The mapping {"ver": "1.0", "flag": true}.
VerKey == <<118, 101, 114>>
FlagKey == <<102, 108, 97, 103>>
VerFlagMapping ==
    [k \in {VerKey, FlagKey} |->
        IF k = VerKey THEN StringValue(<<49, 46, 48>>) ELSE TrueValue]

\* C9 as stated: the TXT rdata 06 76 65 72 3d 31 2e 30 04 66 6c 61 67
\* decodes to the mapping with exactly the keys ver -> "1.0" and flag -> true.
C9_TxtScenario06 ==
    (op = "parseRecord" /\ msg = TxtScenario(6).bytes) =>
        /\ out.status = "ok"
        /\ out.rdata = VerFlagMapping

\* C9 amended: the TXT rdata 07 76 65 72 3d 31 2e 30 04 66 6c 61 67, whose
\* first length byte is the length of ver=1.0, decodes to the mapping with
\* exactly the keys ver -> "1.0" and flag -> true.
C9_TxtScenario07 ==
    (op = "parseRecord" /\ msg = TxtScenario(7).bytes) =>
        /\ out.status = "ok"
        /\ out.type = 16
        /\ out.rdlength = 13
        /\ out.rdata = VerFlagMapping

C9_Witness ==
    /\ op = "parseRecord"
    /\ msg = TxtScenario(7).bytes
    /\ out.status = "ok"
    /\ DOMAIN out.rdata = {VerKey, FlagKey}

\* C10: a TXT record that parseRecord returns ends at rdata start + rdlength:
\* the next offset returned is the offset just after the 10 bytes of fixed
\* fields plus rdlength; a record whose sub-strings run past that offset is
\* rejected with an error.
C10_TxtNextOffset ==
    (op = "parseRecord" /\ out.status = "ok" /\ out.type = 16) =>
        out.offset = Linear(msg, at, <<>>).end + 10 + out.rdlength

\* The name that starts at an offset, read label by label: the labels up to
\* the terminator, or up to the first pointer followed by the name at its
\* target.
NameStartingAt(buffer, offset) ==
    LET lin == Linear(buffer, offset, <<>>) IN
    IF lin.kind = "end" THEN join(lin.labels)
    ELSE ConcatNames(join(lin.labels), readName(buffer, lin.target).name)

\* C11: for a PTR, SRV or A record and for a record of a type that is not
\* interpreted, the next-record offset parseRecord returns is the offset
\* just after the 10 bytes of fixed fields plus rdlength, wherever the name
\* in the rdata ended and wherever its pointers led; the target of an SRV
\* record is the name that starts 6 bytes into the rdata.
C11_NextOffset ==
    (op = "parseRecord" /\ out.status = "ok" /\ out.type # 16) =>
        LET start == Linear(msg, at, <<>>).end + 10 IN
        /\ out.rdlength = readUInt16BE(msg, start - 2)
        /\ out.offset = start + out.rdlength
        /\ out.type = 33 =>
                /\ Linear(msg, start + 6, <<>>).kind \in {"end", "pointer"}
                /\ out.rdata.target = NameStartingAt(msg, start + 6)

\* A PTR or SRV record whose rdata name, ending in a pointer, stops short
\* of rdata start + rdlength.
C11_Witness ==
    /\ op = "parseRecord"
    /\ out.status = "ok"
    /\ out.type \in {12, 33}
    /\ LET start == Linear(msg, at, <<>>).end + 10
            nameAt == IF out.type = 33 THEN start + 6 ELSE start
        IN  /\ Linear(msg, nameAt, <<>>).kind = "pointer"
            /\ Linear(msg, nameAt, <<>>).end < start + out.rdlength
            /\ out.offset = start + out.rdlength

\* The offset after count questions, each a name read without following
\* pointers and 4 more bytes.
RECURSIVE QuestionsEnd(_, _, _)
QuestionsEnd(buffer, offset, count) ==
    IF count = 0 THEN offset
    ELSE QuestionsEnd(buffer, Linear(buffer, offset, <<>>).end + 4, count - 1)

\* The offset at which the i-th record of a parse starts: the end of the
\* question section for the first, the next offset returned for the record
\* before it for the others.
RecordStart(buffer, records, i) ==
    IF i = 1 THEN QuestionsEnd(buffer, 12, readUInt16BE(buffer, 4))
    ELSE records[i - 1].offset

\* C12: a parse that parseDNSMessage returns holds exactly ancount + nscount
\* + arcount records, in the order of the buffer; the questions are stepped
\* over, each to the end of its name plus 4; the first record is decoded at
\* the end of the question section and each other record at the next offset
\* returned for the record before it.
C12_RecordChain ==
    (op = "parseDNSMessage" /\ out.status = "ok") =>
        /\ Len(out.records) =
                readUInt16BE(msg, 6) + readUInt16BE(msg, 8) + readUInt16BE(msg, 10)
        /\ \A i \in 1..Len(out.records) :
                LET start == RecordStart(msg, out.records, i) IN
                /\ out.records[i] = parseRecord(msg, start)
                /\ out.records[i].name = NameStartingAt(msg, start)
                /\ out.records[i].type = readUInt16BE(msg, Linear(msg, start, <<>>).end)
                /\ start < out.records[i].offset

\* A parse of a question and two records, one of them counted by nscount
\* or arcount.
C12_Witness ==
    /\ op = "parseDNSMessage"
    /\ out.status = "ok"
    /\ readUInt16BE(msg, 4) = 1
    /\ readUInt16BE(msg, 6) < 2
    /\ Len(out.records) = 2
    /\ out.records[2].type # out.records[1].type

\* The dotted string of an A record: rdlength decimal numbers, one for each
\* byte from rdata start on, and the empty string for no byte.
DottedBytes(buffer, start, rdlength, rdata) ==
    IF rdlength = 0 THEN rdata = <<>>
    ELSE /\ Len(split(rdata)) = rdlength
         /\ \A i \in 1..rdlength : split(rdata)[i] = Decimal(buffer[start + i])

\* C16: the rdata of an A record is the decimal values of exactly rdlength
\* bytes joined by '.', for every rdlength; a record of a type other than
\* 1, 12, 16 and 33 has as rdata the rdlength bytes from rdata start to
\* rdata start + rdlength, as they are.
C16_AddressAndOpaque ==
    (op = "parseRecord" /\ out.status = "ok") =>
        LET start == Linear(msg, at, <<>>).end + 10 IN
        /\ out.type = 1 => DottedBytes(msg, start, out.rdlength, out.rdata)
        /\ out.type \notin {1, 12, 16, 33} =>
                /\ Len(out.rdata) = out.rdlength
                /\ \A i \in 1..out.rdlength : out.rdata[i] = msg[start + i]

\* What does hold: C16 for the records whose rdata lies within the buffer.
C16_RdataWithinBuffer ==
    (/\ op = "parseRecord"
     /\ out.status = "ok"
     /\ CanRead(msg, Linear(msg, at, <<>>).end + 10, out.rdlength)) =>
        C16_AddressAndOpaque

\* The sub-strings of a TXT rdata from offset to end, each a length byte
\* and that many bytes; "invalid" when one of them does not fit.
RECURSIVE TxtStrings(_, _, _, _)
TxtStrings(buffer, offset, end, strings) ==
    IF offset = end THEN [valid |-> TRUE, strings |-> strings]
    ELSE IF offset > end \/ ~CanRead(buffer, offset, 1) THEN [valid |-> FALSE]
    ELSE LET n == buffer[offset + 1] IN
         IF offset + 1 + n > end \/ ~CanRead(buffer, offset + 1, n) THEN [valid |-> FALSE]
         ELSE TxtStrings(buffer, offset + 1 + n, end,
                         Append(strings, toString(buffer, offset + 1, offset + 1 + n)))

HasEquals(txt) == \E i \in 1..Len(txt) : txt[i] = Equals
FirstEquals(txt) ==
    CHOOSE i \in 1..Len(txt) : txt[i] = Equals /\ \A j \in 1..(i - 1) : txt[j] # Equals

\* The key and the value a sub-string stands for.
TxtKey(txt) == IF HasEquals(txt) THEN SubSeq(txt, 1, FirstEquals(txt) - 1) ELSE txt
TxtValue(txt) ==
    IF HasEquals(txt) THEN [string |-> SubSeq(txt, FirstEquals(txt) + 1, Len(txt))]
    ELSE [boolean |-> TRUE]

\* The mapping holds, for every key of the sub-strings, the value of the
\* last sub-string with that key, and nothing else.
MapsLastOccurrence(strings, mapping) ==
    /\ DOMAIN mapping = {TxtKey(strings[i]) : i \in 1..Len(strings)}
    /\ \A i \in 1..Len(strings) :
            (\A j \in (i + 1)..Len(strings) : TxtKey(strings[j]) # TxtKey(strings[i])) =>
                mapping[TxtKey(strings[i])] = TxtValue(strings[i])

\* The sub-strings of the TXT record that starts at the offset of the call.
TxtStringsOfCall ==
    LET start == Linear(msg, at, <<>>).end + 10 IN
    TxtStrings(msg, start, start + out.rdlength, <<>>)

\* C15: each sub-string of a TXT record is split at its first '=' into the
\* key before it and the value after it, later '=' included; a sub-string
\* without '=' is a key with the value true; of several sub-strings with
\* the same key the mapping holds the value of the last.
C15_TxtMapping ==
    (op = "parseRecord" /\ out.status = "ok" /\ out.type = 16
            /\ TxtStringsOfCall.valid) =>
        MapsLastOccurrence(TxtStringsOfCall.strings, out.rdata)

\* What does hold: C15 for the records none of whose keys is __proto__.
C15_OtherKeys ==
    (op = "parseRecord" /\ out.status = "ok" /\ out.type = 16
            /\ TxtStringsOfCall.valid
            /\ \A i \in 1..Len(TxtStringsOfCall.strings) :
                    TxtKey(TxtStringsOfCall.strings[i]) # ProtoKey) =>
        C15_TxtMapping

\* C18: the query nativeMdnsDiscovery.js builds for _smart_ip._tcp.local.,
\* written with a trailing dot, is byte for byte the query testing1.js
\* builds for _smart_ip._tcp.local: the empty part after the last dot is
\* skipped, so that the only zero length byte of the name is its terminator.
\* The same holds of every name and that name with a dot added.
C18_SameQuery ==
    op = "buildQuery" =>
        /\ fullServiceQuery \in {DefaultServiceQuery, NativeServiceQuery} =>
                /\ query.status = "ok"
                /\ query.buffer = ScenarioQueryBytes
                /\ Linear(query.buffer, 12, <<>>).labels = <<SmartIp, Tcp, Local>>
        /\ buildQuery(fullServiceQuery \o <<Dot>>) = query

C18_Witness ==
    /\ op = "buildQuery"
    /\ fullServiceQuery = NativeServiceQuery
    /\ query.status = "ok"
    /\ Len(split(fullServiceQuery)) = 4

(***************************************************************************)
(* The two listeners.  Every datagram sent to the multicast group reaches  *)
(* the message handler of testing1.js, whose table lives as long as the    *)
(* process, and that of nativeMdnsDiscovery.js, which builds a new table   *)
(* for each datagram.  Each handler takes the datagrams in the order they  *)
(* were sent and runs to its end before it takes the next.                 *)
(***************************************************************************)
Testing1 == "testing1.js"
Native == "nativeMdnsDiscovery.js"
Listeners == {Testing1, Native}

\* The names of the records, as they are written after the question
\* _smart_ip._tcp.local PTR IN: the service name, as a pointer to the
\* question name, or as its three labels; the instance d._smart_ip._tcp.local; the host h.local;
\* the name c; and the name __proto__.
ServiceOwner == Pointer(QuestionNameOffset)
ServiceLabels == <<9>> \o SmartIp \o <<4>> \o Tcp \o <<5>> \o Local \o <<0>>
InstanceD == <<1, 100>> \o Pointer(QuestionNameOffset)
HostH == <<1, 104>> \o Pointer(LocalSuffixOffset)
ProtoOwner == <<Len(ProtoKey)>> \o ProtoKey \o <<0>>

InstanceName == <<100, Dot>> \o DefaultServiceQuery     \* "d._smart_ip._tcp.local"
HostName == <<104, Dot>> \o Local                       \* "h.local"

PtrRecord(owner, target) == Record(owner, 12, Len(target), target)
SrvRecord(owner, target) ==
    Record(owner, 33, 6 + Len(target), <<0, 0, 0, 0, 31, 144>> \o target)
TxtRecord(owner) == Record(owner, 16, 4, <<3, 97, 61, 98>>)
ARecord(owner) == Record(owner, 1, 4, <<192, 168, 1, 5>>)

\* The datagrams sent: the record lists below after the question; a
\* datagram of 5 bytes; and a datagram whose one record has as its name a
\* pointer to itself.
RecordLists ==
    {<<PtrRecord(ServiceOwner, InstanceD)>>,
     <<PtrRecord(ServiceLabels, InstanceD)>>,
     <<PtrRecord(ServiceOwner, NameC)>>,
     <<PtrRecord(NameC, InstanceD)>>,
     <<SrvRecord(InstanceD, HostH)>>,
     <<SrvRecord(NameC, HostH)>>,
     <<SrvRecord(ProtoOwner, HostH)>>,
     <<TxtRecord(InstanceD)>>,
     <<TxtRecord(NameC)>>,
     <<TxtRecord(ProtoOwner)>>,
     <<TxtRecord(ProtoOwner), SrvRecord(ProtoOwner, HostH)>>,
     <<ARecord(HostH)>>,
     <<ARecord(NameC)>>,
     <<SrvRecord(InstanceD, HostH), ARecord(HostH)>>,
     <<ARecord(HostH), SrvRecord(InstanceD, HostH)>>,
     <<TxtRecord(InstanceD), ARecord(HostH)>>,
     <<PtrRecord(ServiceOwner, InstanceD), ARecord(HostH)>>,
     <<SrvRecord(InstanceD, NameC), ARecord(HostH)>>}

ListenerDatagram(records) ==
    Header(1, Len(records), 0, 0) \o ScenarioQuestion \o Flatten(records)

CutDatagram == SubSeq(ListenerDatagram(<<ARecord(NameC)>>), 1, 5)

LoopDatagram ==
    ListenerDatagram(<<Record(Pointer(QuestionNameOffset + Len(ScenarioQuestion)),
                              1, 4, <<192, 168, 1, 5>>)>>)

ListenerDatagrams ==
    {ListenerDatagram(records) : records \in RecordLists}
        \cup {CutDatagram, LoopDatagram}

Init ==
    /\ op = "listening"
    /\ fullServiceQuery = DefaultServiceQuery
    /\ query = NoCall
    /\ sent = NoDatagram
    /\ msg = <<>>
    /\ at = 0
    /\ out = NoCall
    /\ NoListener

\* A datagram arrives for both listeners, once every listener whose handler
\* returns has handled the one before.
Send ==
    /\ Len(stream) < MaxMessages
    /\ pending \subseteq hung
    /\ \E d \in ListenerDatagrams :
        /\ msg' = d
        /\ stream' = Append(stream, d)
    /\ pending' = Listeners
    /\ UNCHANGED <<op, fullServiceQuery, query, sent, at, out, services, shown, steps,
                   prototype, nativeSteps, hung>>

\* testing1.js:170-232, socket.on('message').  A parse that does not end
\* leaves the handler in readName for ever; an error thrown is caught at
\* line 229 and logged.
OnMessage ==
    /\ Testing1 \in pending \ hung
    /\ pending' = pending \ {Testing1}
    /\ op' = Testing1
    /\ \E parsed \in {parseDNSMessage(msg)} :
        /\ out' = parsed
        /\ IF parsed.status = "diverges"
           THEN /\ hung' = hung \cup {Testing1}
                /\ UNCHANGED <<services, shown, steps>>
           ELSE IF parsed.status # "ok"
           THEN /\ steps' = <<services>>
                /\ shown' = {}
                /\ UNCHANGED <<services, hung>>
           ELSE \E run \in {HandleRecords(parsed.records, 1, CleanPrototype,
                                          <<services>>)} :
                /\ steps' = run.steps
                /\ services' = run.steps[Len(run.steps)]
                /\ shown' = IF run.status = "ok"
                            THEN Displayed(run.steps[Len(run.steps)]) ELSE {}
                /\ UNCHANGED hung
    /\ UNCHANGED <<fullServiceQuery, query, sent, msg, at, prototype, nativeSteps, stream>>

\* nativeMdnsDiscovery.js:161-217, socket.on('message').  The table is a
\* local of the handler (line 165); what the handler adds to
\* Object.prototype stays for the datagrams that follow.
NativeOnMessage ==
    /\ Native \in pending \ hung
    /\ pending' = pending \ {Native}
    /\ op' = Native
    /\ \E parsed \in {parseDNSMessage(msg)} :
        /\ out' = parsed
        /\ IF parsed.status = "diverges"
           THEN /\ hung' = hung \cup {Native}
                /\ UNCHANGED <<prototype, nativeSteps>>
           ELSE IF parsed.status # "ok"
           THEN /\ nativeSteps' = <<>>
                /\ UNCHANGED <<prototype, hung>>
           ELSE \E run \in {NativeHandleRecords(parsed.records, 1, prototype,
                                                <<EmptyObject>>)} :
                /\ nativeSteps' = run.steps
                /\ prototype' = run.prototype
                /\ UNCHANGED hung
    /\ UNCHANGED <<fullServiceQuery, query, sent, msg, at, services, shown, steps, stream>>

Next == Send \/ OnMessage \/ NativeOnMessage

Spec == Init /\ [][Next]_vars

\* The table of testing1.js after the datagrams of a list that decode,
\* handled one after the other; those that do not decode are left out.
RECURSIVE TableAfter(_, _, _)
TableAfter(datagrams, i, table) ==
    IF i > Len(datagrams) THEN table
    ELSE LET parsed == parseDNSMessage(datagrams[i]) IN
         IF parsed.status # "ok" THEN TableAfter(datagrams, i + 1, table)
         ELSE LET run == HandleRecords(parsed.records, 1, CleanPrototype, <<table>>)
              IN  TableAfter(datagrams, i + 1, run.steps[Len(run.steps)])

\* The datagrams sent that testing1.js is not still to take.
Taken ==
    IF Testing1 \in pending \ hung THEN SubSeq(stream, 1, Len(stream) - 1) ELSE stream

\* The handler of testing1.js was handed a datagram that does not decode.
DecodeFailed == op = Testing1 /\ out.status # "ok"

\* C13: a datagram that fails to decode leaves the service table as it was
\* before it, and every datagram after it is still decoded and handled:
\* the handler returns from every datagram, and after any sequence of
\* datagrams the table is the one that handling only the datagrams that
\* decode gives.
C13_ErrorIsolation ==
    /\ Testing1 \notin hung
    /\ DecodeFailed /\ Testing1 \notin hung => services = steps[1]
    /\ services = TableAfter(Taken, 1, EmptyObject)

\* What does hold: C13 as long as no datagram has a name whose pointers
\* form a loop.
C13_WhileNoLoop ==
    (\A i \in 1..Len(stream) : parseDNSMessage(stream[i]).status # "diverges") =>
        C13_ErrorIsolation

\* A name is that of the service, or ends with a dot and the name of the
\* service.
NamedForService(name) ==
    \/ name = DefaultServiceQuery
    \/ \E n \in 0..Len(name) :
            name = SubSeq(name, 1, n) \o <<Dot>> \o DefaultServiceQuery

\* The records of the datagrams testing1.js has taken that decode.
RecordsTaken ==
    UNION {LET parsed == parseDNSMessage(Taken[i]) IN
           IF parsed.status = "ok"
           THEN {parsed.records[j] : j \in 1..Len(parsed.records)} ELSE {} :
           i \in 1..Len(Taken)}

\* The instance names that PTR records of the service have listed.
Listed == {r.rdata : r \in {q \in RecordsTaken : q.type = 12 /\ q.name = DefaultServiceQuery}}

\* The records of the last datagram testing1.js handled, when it decoded:
\* steps[i] is the table before the i-th of them and steps[i + 1] after it.
LastRecords ==
    IF Testing1 \notin pending /\ stream # <<>> /\ parseDNSMessage(msg).status = "ok"
    THEN parseDNSMessage(msg).records ELSE <<>>

SameBut(before, after, key) ==
    \A k \in (DOMAIN before \cup DOMAIN after) \ {key} :
        k \in DOMAIN before /\ k \in DOMAIN after /\ after[k] = before[k]

OnlyName(key) == [p \in {PropName} |-> [string |-> key]]

HasTarget(entry, name) ==
    PropTarget \in DOMAIN entry /\ entry[PropTarget] = [string |-> name]

\* An entry differs, if at all, by one more address at the end of its list.
AddressAdded(before, after, address) ==
    /\ DOMAIN after = DOMAIN before \cup {PropAddresses}
    /\ \A p \in DOMAIN before \ {PropAddresses} : after[p] = before[p]
    /\ after[PropAddresses] =
        [array |-> Append(IF PropAddresses \in DOMAIN before
                          THEN before[PropAddresses].array ELSE <<>>, address)]

\* What one record may do to the table of testing1.js: a PTR record of the
\* service adds at most an entry for its rdata, holding its name; an SRV or
\* TXT record named for the service touches the entry of its name only; an
\* A record adds its address to the entries whose target is its name and
\* to no other; any other record leaves the table as it is.
RecordEffect(rec, before, after) ==
    IF rec.type = 12 /\ rec.name = DefaultServiceQuery
    THEN \/ after = before
         \/ /\ rec.rdata \notin DOMAIN before
            /\ DOMAIN after = DOMAIN before \cup {rec.rdata}
            /\ after[rec.rdata] = OnlyName(rec.rdata)
            /\ SameBut(before, after, rec.rdata)
    ELSE IF rec.type \in {16, 33} /\ NamedForService(rec.name)
    THEN /\ DOMAIN after = DOMAIN before \cup {rec.name}
         /\ SameBut(before, after, rec.name)
    ELSE IF rec.type = 1
    THEN /\ DOMAIN after = DOMAIN before
         /\ \A k \in DOMAIN before :
                IF HasTarget(before[k], rec.name)
                THEN AddressAdded(before[k], after[k], rec.rdata)
                ELSE after[k] = before[k]
    ELSE after = before

RecordEffects ==
    /\ LastRecords # <<>> => Len(steps) = Len(LastRecords) + 1
    /\ \A i \in 1..Len(LastRecords) : RecordEffect(LastRecords[i], steps[i], steps[i + 1])

\* C14 as stated: every entry of the table of testing1.js has a name that
\* is _smart_ip._tcp.local or ends with ._smart_ip._tcp.local, and a record
\* unrelated to the service neither creates nor changes an entry.
C14_EntriesNamedForService ==
    /\ \A k \in DOMAIN services :
            NamedForService(k) /\ services[k][PropName] = [string |-> k]
    /\ RecordEffects

\* C14 amended: every entry of the table of testing1.js either has a name
\* that is _smart_ip._tcp.local or ends with ._smart_ip._tcp.local, or is
\* the rdata of a PTR record whose name is _smart_ip._tcp.local, and then
\* it holds its name and nothing else and is not printed; the entries
\* printed are named for the service; and a record that is not a PTR record
\* of the service, an SRV or TXT record named for the service or an A
\* record named as the target of an entry neither creates nor changes an
\* entry.
C14_EntriesFromServiceRecords ==
    /\ \A k \in DOMAIN services :
            /\ services[k][PropName] = [string |-> k]
            /\ \/ NamedForService(k)
               \/ k \in Listed /\ services[k] = OnlyName(k)
    /\ \A k \in shown : k \in DOMAIN services /\ NamedForService(k)
    /\ RecordEffects

\* The table holds an entry listed by a PTR record whose name is not that
\* of the service, and an entry named for the service, which is printed.
C14_Witness ==
    /\ \E k \in DOMAIN services : ~NamedForService(k) /\ k \in Listed
    /\ \E k \in DOMAIN services : NamedForService(k) /\ PropPort \in DOMAIN services[k]
    /\ shown # {}

\* The records of the last datagram nativeMdnsDiscovery.js handled, when it
\* decoded: nativeSteps[i] is its table before the i-th of them and
\* nativeSteps[i + 1] after it, up to a record at which the handler threw.
NativeLastRecords ==
    IF Native \notin pending /\ stream # <<>> /\ parseDNSMessage(msg).status = "ok"
    THEN parseDNSMessage(msg).records ELSE <<>>

\* C17: in nativeMdnsDiscovery.js a PTR record whose name is the service
\* name that was queried, _smart_ip._tcp.local, written as its labels or as
\* a pointer to the question name, registers an entry under its rdata, the
\* instance name.
C17_PtrRegisters ==
    \A i \in 1..Len(NativeLastRecords) :
        (/\ i < Len(nativeSteps)
         /\ NativeLastRecords[i].type = 12
         /\ NativeLastRecords[i].name = DefaultServiceQuery) =>
            NativeLastRecords[i].rdata \in DOMAIN nativeSteps[i + 1]

\* What does hold: the PTR records of the service register their rdata in
\* the table of testing1.js.
C17_Testing1Registers ==
    \A i \in 1..Len(LastRecords) :
        (LastRecords[i].type = 12 /\ LastRecords[i].name = DefaultServiceQuery) =>
            LastRecords[i].rdata \in DOMAIN steps[i + 1]

\* The addresses and the target an entry of a table holds, if any.
AddressesOf(table, k) ==
    IF k \in DOMAIN table /\ PropAddresses \in DOMAIN table[k]
    THEN table[k][PropAddresses].array ELSE <<>>

TargetOf(table, k) ==
    IF k \in DOMAIN table /\ PropTarget \in DOMAIN table[k]
    THEN table[k][PropTarget] ELSE [none |-> TRUE]

\* Along the tables before and after each record of a datagram: the list of
\* addresses of an entry changes only at an A record, by the address of
\* that record, and only if the entry had before that record a target
\* equal to the name of the record; the target of an entry changes only at
\* an SRV record of the name of the entry, to the target of that record.
InOrder(records, tables) ==
    \A i \in 1..Min(Len(records), Len(tables) - 1) : \A k \in DOMAIN tables[i + 1] :
        /\ AddressesOf(tables[i + 1], k) # AddressesOf(tables[i], k) =>
                /\ records[i].type = 1
                /\ TargetOf(tables[i], k) = [string |-> records[i].name]
                /\ AddressesOf(tables[i + 1], k) =
                        Append(AddressesOf(tables[i], k), records[i].rdata)
        /\ TargetOf(tables[i + 1], k) # TargetOf(tables[i], k) =>
                /\ records[i].type = 33
                /\ records[i].name = k
                /\ TargetOf(tables[i + 1], k) = [string |-> records[i].rdata.target]

\* In testing1.js the target of every entry is that of an SRV record of
\* its name in a datagram handled so far.
TargetsFromSrv ==
    \A k \in DOMAIN services :
        PropTarget \in DOMAIN services[k] =>
            \E r \in RecordsTaken :
                r.type = 33 /\ r.name = k /\ services[k][PropTarget] = [string |-> r.rdata.target]

\* C19 for testing1.js.
Testing1InOrder ==
    /\ LastRecords # <<>> => steps[Len(steps)] = services
    /\ InOrder(LastRecords, steps)
    /\ TargetsFromSrv

\* C19 for nativeMdnsDiscovery.js: the table starts empty at each datagram,
\* and an address is attached only after an SRV record of the same datagram
\* for that entry with the name of the A record as its target.
NativeInOrder ==
    /\ NativeLastRecords # <<>> => nativeSteps[1] = EmptyObject
    /\ InOrder(NativeLastRecords, nativeSteps)
    /\ \A i \in 1..Min(Len(NativeLastRecords), Len(nativeSteps) - 1) :
        \A k \in DOMAIN nativeSteps[i + 1] :
            AddressesOf(nativeSteps[i + 1], k) # AddressesOf(nativeSteps[i], k) =>
                \E j \in 1..(i - 1) :
                    /\ NativeLastRecords[j].type = 33
                    /\ NativeLastRecords[j].name = k
                    /\ NativeLastRecords[j].rdata.target = NativeLastRecords[i].name

\* C19: the address of an A record is appended to an entry only if the
\* target of the entry was set before by an SRV record and is the name of
\* the A record: by an SRV record earlier in the same datagram or, in
\* testing1.js, of an earlier datagram; an A record that comes before the
\* SRV record is attached to nothing; in nativeMdnsDiscovery.js, whose
\* table is new for each datagram, no address is attached because of an SRV
\* record of an earlier datagram.
C19_AddressAfterTarget == Testing1InOrder /\ NativeInOrder

\* What does hold: C19 for testing1.js, and for nativeMdnsDiscovery.js as
\* long as no record has been named __proto__.
C19_WhileNoProtoName ==
    /\ Testing1InOrder
    /\ prototype = CleanPrototype => NativeInOrder

====
